---- MODULE Spec2Model ----
(***************************************************************************)
(* Model of orbits (src/src/main.rs): main's start-up, App::update and     *)
(* App::render.  f64 values are kept as fixed-point integers counting      *)
(* hundredths (Scale), with the three IEEE specials +inf, -inf and NaN     *)
(* represented by integers beyond MaxFinite.  Arithmetic truncates toward  *)
(* zero.  Display-only data (colours, the GL backend) is left out, and the  *)
(* window is the 800 x 800 one of the windowed mode.                       *)
(***************************************************************************)
EXTENDS Integers, Sequences, FiniteSets, TLC

----------------------------------------------------------------------------
(* f64 arithmetic                                                          *)

Scale == 100
MaxFinite == 2000000000
PosInf == MaxFinite + 1
NegInf == 0 - PosInf
NaN == MaxFinite + 2

IsNaN(a) == a = NaN
IsInf(a) == a = PosInf \/ a = NegInf
IsFinite(a) == NegInf < a /\ a < PosInf

Abs(n) == IF n < 0 THEN 0 - n ELSE n
Sign(n) == IF n < 0 THEN 0 - 1 ELSE IF n > 0 THEN 1 ELSE 0
Max(a, b) == IF a < b THEN b ELSE a
Min(a, b) == IF a < b THEN a ELSE b

\* the value of the integer literal n (800, 25.0, ...)
F(n) == n * Scale

FNeg(a) == IF IsNaN(a) THEN NaN ELSE 0 - a

FAdd(a, b) ==
    IF IsFinite(a) /\ IsFinite(b) THEN a + b
    ELSE IF IsNaN(a) \/ IsNaN(b) THEN NaN
    ELSE IF IsInf(a) THEN (IF IsInf(b) /\ a # b THEN NaN ELSE a)
    ELSE b

FSub(a, b) == FAdd(a, FNeg(b))

\* |a*b| / Scale for finite a, b, the larger factor split so that no
\* intermediate product leaves the integer range
MulNN(a, b) ==
    IF a < b
    THEN (b \div Scale) * a + ((b % Scale) * a) \div Scale
    ELSE (a \div Scale) * b + ((a % Scale) * b) \div Scale

\* |a| * Scale / |b| for finite a and b > 0
DivNN(a, b) ==
    IF b <= MaxFinite \div Scale
    THEN (a \div b) * Scale + ((a % b) * Scale) \div b
    ELSE a \div (b \div Scale)

FMul(a, b) ==
    IF IsFinite(a) /\ IsFinite(b)
    THEN (IF (a < 0) = (b < 0) THEN MulNN(Abs(a), Abs(b))
          ELSE 0 - MulNN(Abs(a), Abs(b)))
    ELSE IF IsNaN(a) \/ IsNaN(b) THEN NaN
    ELSE IF a = 0 \/ b = 0 THEN NaN
    ELSE IF Sign(a) * Sign(b) > 0 THEN PosInf ELSE NegInf

\* division by zero gives an infinity, or NaN for 0/0
FDiv(a, b) ==
    IF IsFinite(a) /\ IsFinite(b) /\ b # 0
    THEN (IF (a < 0) = (b < 0) THEN DivNN(Abs(a), Abs(b))
          ELSE 0 - DivNN(Abs(a), Abs(b)))
    ELSE IF IsNaN(a) \/ IsNaN(b) THEN NaN
    ELSE IF IsInf(a)
         THEN (IF IsInf(b) THEN NaN
               ELSE IF Sign(a) * (IF b < 0 THEN 0 - 1 ELSE 1) > 0 THEN PosInf ELSE NegInf)
    ELSE IF IsInf(b) THEN 0
    ELSE IF a = 0 THEN NaN
    ELSE IF a > 0 THEN PosInf ELSE NegInf

\* IEEE comparisons: false as soon as one side is NaN
FLt(a, b) == ~IsNaN(a) /\ ~IsNaN(b) /\ a < b
FGt(a, b) == FLt(b, a)

RECURSIVE SqrtNewton(_, _)
\* Newton's iteration for the integer square root of a * Scale, from a
\* guess x above it
SqrtNewton(a, x) ==
    LET y == (x + DivNN(a, x)) \div 2
    IN  IF y >= x THEN x ELSE SqrtNewton(a, y)

\* a power of ten above the square root of a * Scale
SqrtGuess(a) ==
    IF a < 100 THEN 100
    ELSE IF a < 10000 THEN 1000
    ELSE IF a < 1000000 THEN 10000
    ELSE IF a < 100000000 THEN 100000
    ELSE 1000000

FSqrt(a) ==
    IF IsNaN(a) \/ a < 0 THEN NaN
    ELSE IF a = PosInf THEN PosInf
    ELSE IF a = 0 THEN 0
    ELSE SqrtNewton(a, SqrtGuess(a))

\* An angle is kept as the pair <<cos, sin>> of its direction.
Cos(angle) == angle[1]
Sin(angle) == angle[2]

\* y.atan2(x): atan2(0, 0) is 0; a NaN argument gives NaN
Atan2(y, x) ==
    IF IsNaN(x) \/ IsNaN(y) THEN <<NaN, NaN>>
    ELSE IF x = 0 /\ y = 0 THEN <<Scale, 0>>
    ELSE IF IsInf(x) /\ IsInf(y) THEN <<Sign(x) * 70, Sign(y) * 70>>
    ELSE IF IsInf(x) THEN <<Sign(x) * Scale, 0>>
    ELSE IF IsInf(y) THEN <<0, Sign(y) * Scale>>
    ELSE LET k == IF Max(Abs(x), Abs(y)) < 10 * Scale THEN Scale ELSE 1
             X == k * x
             Y == k * y
             d == FSqrt(MulNN(Abs(X), Abs(X)) + MulNN(Abs(Y), Abs(Y)))
         IN  <<FDiv(X, d), FDiv(Y, d)>>

----------------------------------------------------------------------------
(* Program constants (main) and the bounds of the model                    *)

Width == 800
Height == 800
AddChance == 1
SatRadius == 5
SatVelocity == 200
GravityConstant == 4000
PlanetMass == 1000
PlanetRadius == 25

MaxPlanets == 3
MaxTrail == 2
MaxTicks == 4
MaxSpawn == 2

\* Args, as main fills it in (the trail length comes from the command line)
width == F(Width)
height == F(Height)
add_chance == AddChance
sat_radius == F(SatRadius)
sat_velocity == F(SatVelocity)
gravity_constant == F(GravityConstant)

\* The inputs: the event loop's time step dt (the default 120 updates per
\* second, kept as 0.01 s), the spawn draw c in [0,1) (0.00 or 0.01), and
\* the spawn point in [0,width) x [0,height) (pixels) with its heading.
West == <<0 - Scale, 0>>
North == <<0, 0 - Scale>>
DtSet == {1}
Draws == {0, 1}
SpawnInputs == {<<400, 400, West>>, <<400, 435, North>>, <<0, 400, West>>}

VARIABLES
    pc,            \* where main is: "main", "panic" or "loop"
    num_planets,   \* the parsed --num_planets
    trail_length,  \* the parsed --trail_length (Args.trail_length)
    dt,            \* UpdateArgs.dt, the event loop's fixed time step
    planets,       \* App.planets
    satellites,    \* App.satellites
    title,         \* the window title; the fps number in it is left out
    tick,          \* number of update calls so far
    nextId,        \* number of satellites spawned so far
    draw,          \* the spawn draw of the latest update
    spawned,       \* the satellite the latest update pushed, if any
    prev,          \* the collection when the latest update was called
    ended,         \* the collection of the latest update just before retain
    deaths         \* per satellite that died: the tick, and the trail length then

vars == <<pc, num_planets, trail_length, dt, planets, satellites, title, tick,
          nextId, draw, spawned, prev, ended, deaths>>

----------------------------------------------------------------------------
(* main: planet creation                                                   *)

\* <<cos, sin>> of theta = 2*pi*i/n - pi/2
LayoutAngle(i, n) ==
    CASE n = 3 -> <<<<0, 0 - 100>>, <<87, 50>>, <<0 - 87, 50>>>>[i + 1]
      [] n = 4 -> <<<<0, 0 - 100>>, <<100, 0>>, <<0, 100>>, <<0 - 100, 0>>>>[i + 1]
      [] n = 5 -> <<<<0, 0 - 100>>, <<95, 0 - 31>>, <<59, 81>>,
                    <<0 - 59, 81>>, <<0 - 95, 0 - 31>>>>[i + 1]

Planet(x, y) ==
    [mass |-> F(PlanetMass), radius |-> F(PlanetRadius), x |-> x, y |-> y]

CreatePlanets(n) ==
    LET radius == FDiv(F(Min(Width, Height)), F(4))
        cx == FDiv(F(Width), F(2))
        cy == FDiv(F(Height), F(2))
    IN  IF n = 1 THEN <<Planet(cx, cy)>>
        ELSE IF n = 2 THEN <<Planet(FSub(cx, radius), cy), Planet(FAdd(cx, radius), cy)>>
        ELSE [i \in 1..n |->
                LET theta == LayoutAngle(i - 1, n)
                IN  Planet(FAdd(cx, FMul(Cos(theta), radius)),
                           FAdd(cx, FMul(Sin(theta), radius)))]

Init ==
    /\ pc = "main"
    /\ num_planets \in 0..MaxPlanets
    /\ trail_length \in 0..MaxTrail
    /\ dt \in DtSet
    /\ planets = <<>>
    /\ satellites = <<>>
    /\ title = "orbits"
    /\ tick = 0
    /\ nextId = 0
    /\ draw = Scale
    /\ spawned = <<>>
    /\ prev = <<>>
    /\ ended = <<>>
    /\ deaths = <<>>

\* a variant of Main without the panic on num_planets = 0
MainUnchecked ==
    /\ pc = "main"
    /\ pc' = "loop"
    /\ planets' = CreatePlanets(num_planets)
    /\ UNCHANGED <<num_planets, trail_length, dt, satellites, title, tick,
                   nextId, draw, spawned, prev, ended, deaths>>

\* main up to the event loop: panics on num_planets = 0, else builds App
Main ==
    /\ pc = "main"
    /\ IF num_planets = 0
       THEN /\ pc' = "panic"
            /\ planets' = planets
       ELSE /\ pc' = "loop"
            /\ planets' = CreatePlanets(num_planets)
    /\ UNCHANGED <<num_planets, trail_length, dt, satellites, title, tick,
                   nextId, draw, spawned, prev, ended, deaths>>

----------------------------------------------------------------------------
(* App::update                                                             *)

\* id, born and path are history fields: the spawn number, the spawn tick
\* and the positions the satellite had at the end of each integration it
\* entered alive
NewSatellite(x, y, angle, id, born) ==
    [id |-> id, born |-> born, path |-> <<>>,
     radius |-> sat_radius,
     dead |-> FALSE,
     x |-> x,
     y |-> y,
     v_x |-> FMul(sat_velocity, Cos(angle)),
     v_y |-> FMul(sat_velocity, Sin(angle)),
     trail |-> <<>>]

\* a variant of ShouldSpawn that also spawns on a draw equal to add_chance
ShouldSpawnInclusive(c) == ~FGt(c, add_chance)

ShouldSpawn(c) == FLt(c, add_chance)

Spawn(sats, c, x, y, angle, id, born) ==
    IF ShouldSpawn(c)
    THEN Append(sats, NewSatellite(x, y, angle, id, born))
    ELSE sats

\* a variant of DistanceSq that never gives less than 0.01
DistanceSqClamped(sat, planet) ==
    LET distance_x == FSub(sat.x, planet.x)
        distance_y == FSub(sat.y, planet.y)
        distance_sq == FAdd(FMul(distance_x, distance_x),
                            FMul(distance_y, distance_y))
    IN  IF distance_sq = 0 THEN 1 ELSE distance_sq

DistanceSq(sat, planet) ==
    LET distance_x == FSub(sat.x, planet.x)
        distance_y == FSub(sat.y, planet.y)
    IN  FAdd(FMul(distance_x, distance_x), FMul(distance_y, distance_y))

UpdateVelocity(sat, planet, d_t) ==
    LET distance_x == FSub(sat.x, planet.x)
        distance_y == FSub(sat.y, planet.y)
        distance_sq == DistanceSq(sat, planet)
        delta_velocity ==
            FDiv(FMul(FMul(gravity_constant, planet.mass), d_t), distance_sq)
        angle == Atan2(distance_y, distance_x)
    IN  [sat EXCEPT
           !.v_x = FAdd(@, FMul(FMul(F(0 - 1), delta_velocity), Cos(angle))),
           !.v_y = FAdd(@, FMul(FMul(F(0 - 1), delta_velocity), Sin(angle)))]

RECURSIVE UpdateVelocities(_, _, _)
UpdateVelocities(sat, ps, d_t) ==
    IF ps = <<>> THEN sat
    ELSE UpdateVelocities(UpdateVelocity(sat, Head(ps), d_t), Tail(ps), d_t)

UpdatePosition(sat, d_t) ==
    [sat EXCEPT !.x = FAdd(@, FMul(sat.v_x, d_t)),
                !.y = FAdd(@, FMul(sat.v_y, d_t))]

\* a variant of UpdateTrail that lets the trail reach len + 1 entries
UpdateTrailLong(sat, len) ==
    LET pushed == IF ~sat.dead THEN Append(sat.trail, <<sat.x, sat.y>>)
                  ELSE sat.trail
        popped == IF Len(pushed) > len + 1 \/ sat.dead
                  THEN (IF pushed = <<>> THEN pushed ELSE Tail(pushed))
                  ELSE pushed
    IN  [sat EXCEPT !.trail = popped]

\* a variant of UpdateTrail that evicts from a dead satellite's trail only
\* when it is over the cap
UpdateTrailKeepDead(sat, len) ==
    LET pushed == IF ~sat.dead THEN Append(sat.trail, <<sat.x, sat.y>>)
                  ELSE sat.trail
        popped == IF Len(pushed) > len
                  THEN (IF pushed = <<>> THEN pushed ELSE Tail(pushed))
                  ELSE pushed
    IN  [sat EXCEPT !.trail = popped]

\* a variant of UpdateTrail that evicts at the tail, the newest entry
UpdateTrailPopBack(sat, len) ==
    LET pushed == IF ~sat.dead THEN Append(sat.trail, <<sat.x, sat.y>>)
                  ELSE sat.trail
        popped == IF Len(pushed) > len \/ sat.dead
                  THEN SubSeq(pushed, 1, Len(pushed) - 1)
                  ELSE pushed
    IN  [sat EXCEPT !.trail = popped]

\* a variant of UpdateTrail that already evicts when the trail is at the cap
UpdateTrailEarly(sat, len) ==
    LET pushed == IF ~sat.dead THEN Append(sat.trail, <<sat.x, sat.y>>)
                  ELSE sat.trail
        popped == IF Len(pushed) >= len \/ sat.dead
                  THEN (IF pushed = <<>> THEN pushed ELSE Tail(pushed))
                  ELSE pushed
    IN  [sat EXCEPT !.trail = popped]

UpdateTrail(sat, len) ==
    LET pushed == IF ~sat.dead THEN Append(sat.trail, <<sat.x, sat.y>>)
                  ELSE sat.trail
        popped == IF Len(pushed) > len \/ sat.dead
                  THEN (IF pushed = <<>> THEN pushed ELSE Tail(pushed))
                  ELSE pushed
    IN  [sat EXCEPT !.trail = popped]

\* a variant of Integrate that moves the satellite by the velocity it came
\* with, before the planets change it
IntegratePositionFirst(sat, ps, d_t, len) ==
    LET moved == UpdateVelocities(UpdatePosition(sat, d_t), ps, d_t)
    IN  [UpdateTrail(moved, len) EXCEPT
           !.path = IF sat.dead THEN @ ELSE Append(@, <<moved.x, moved.y>>)]

\* one pass of the first loop of update over one satellite (path records
\* the position reached)
Integrate(sat, ps, d_t, len) ==
    LET moved == UpdatePosition(UpdateVelocities(sat, ps, d_t), d_t)
    IN  [UpdateTrail(moved, len) EXCEPT
           !.path = IF sat.dead THEN @ ELSE Append(@, <<moved.x, moved.y>>)]

\* a variant of outside without the test of the left edge
outsideNoLeft(x, y, radius, w, h) ==
    \/ FLt(FAdd(y, radius), 0)
    \/ FGt(FSub(x, radius), w)
    \/ FGt(FSub(y, radius), h)

\* a variant of outside whose four comparisons are not strict
outsideInclusive(x, y, radius, w, h) ==
    \/ ~FGt(FAdd(x, radius), 0)
    \/ ~FGt(FAdd(y, radius), 0)
    \/ ~FLt(FSub(x, radius), w)
    \/ ~FLt(FSub(y, radius), h)

outside(x, y, radius, w, h) ==
    \/ FLt(FAdd(x, radius), 0)
    \/ FLt(FAdd(y, radius), 0)
    \/ FGt(FSub(x, radius), w)
    \/ FGt(FSub(y, radius), h)

\* a variant of Collides that leaves the satellite's radius out
CollidesCentre(sat, planet) ==
    FLt(FSqrt(DistanceSq(sat, planet)), planet.radius)

Collides(sat, planet) ==
    FLt(FSqrt(DistanceSq(sat, planet)), FAdd(sat.radius, planet.radius))

\* a variant of MarkDead without the collision test
MarkDeadOutsideOnly(sat, ps) ==
    [sat EXCEPT !.dead =
        \/ sat.dead
        \/ outside(sat.x, sat.y, sat.radius, width, height)]

\* a variant of MarkDead that decides dead from the two tests alone
MarkDeadFresh(sat, ps) ==
    [sat EXCEPT !.dead =
        \/ outside(sat.x, sat.y, sat.radius, width, height)
        \/ \E k \in 1..Len(ps) : Collides(sat, ps[k])]

MarkDead(sat, ps) ==
    [sat EXCEPT !.dead =
        \/ sat.dead
        \/ outside(sat.x, sat.y, sat.radius, width, height)
        \/ \E k \in 1..Len(ps) : Collides(sat, ps[k])]

\* a variant of Retain that drops a satellite as soon as it is dead
RetainAlive(sat) == ~sat.dead

Retain(sat) == ~sat.dead \/ Len(sat.trail) > 0

\* a variant of MarkedSatellites that pushes the new satellite after the
\* two loops
MarkedSatellitesSpawnLast(sats, ps, d_t, len, c, x, y, angle, id, born) ==
    LET moved == [i \in 1..Len(sats) |-> Integrate(sats[i], ps, d_t, len)]
        marked == [i \in 1..Len(moved) |-> MarkDead(moved[i], ps)]
    IN  Spawn(marked, c, x, y, angle, id, born)

\* the collection at the end of update's second loop, the spawn inputs
\* being given
MarkedSatellites(sats, ps, d_t, len, c, x, y, angle, id, born) ==
    LET added == Spawn(sats, c, x, y, angle, id, born)
        moved == [i \in 1..Len(added) |-> Integrate(added[i], ps, d_t, len)]
    IN  [i \in 1..Len(moved) |-> MarkDead(moved[i], ps)]

RetainSatellites(sats) == SelectSeq(sats, Retain)

Ids(sats) == {sats[i].id : i \in 1..Len(sats)}
Sats(sats) == {sats[i] : i \in 1..Len(sats)}

\* history: the satellites that became dead in this update
NewDeaths(before, marked, now) ==
    LET wasDead == {s.id : s \in {t \in Sats(before) : t.dead}}
        dying == {s \in Sats(marked) : s.dead /\ s.id \notin wasDead}
    IN  [id \in {s.id : s \in dying} |->
            [tick |-> now, len |-> Len((CHOOSE s \in dying : s.id = id).trail)]]

\* one call of update; without a spawn the position and heading drawn play
\* no part, so a single placeholder stands for them
Update ==
    /\ pc = "loop"
    /\ tick < MaxTicks
    /\ \E c \in Draws :
         \E in \in IF ShouldSpawn(c) THEN SpawnInputs ELSE {<<0, 0, West>>} :
            /\ ShouldSpawn(c) => nextId < MaxSpawn
            /\ LET x == F(in[1])
                   y == F(in[2])
                   added == Spawn(satellites, c, x, y, in[3], nextId + 1, tick)
                   marked == MarkedSatellites(satellites, planets, dt, trail_length,
                                              c, x, y, in[3], nextId + 1, tick)
               IN  /\ satellites' = RetainSatellites(marked)
                   /\ draw' = c
                   /\ spawned' = SubSeq(added, Len(satellites) + 1, Len(added))
                   /\ nextId' = nextId + (Len(added) - Len(satellites))
                   /\ prev' = satellites
                   /\ ended' = marked
                   /\ deaths' = NewDeaths(satellites, marked, tick + 1) @@ deaths
    /\ tick' = tick + 1
    /\ UNCHANGED <<pc, num_planets, trail_length, dt, planets, title>>

----------------------------------------------------------------------------
(* App::render                                                             *)

\* a variant of Render that consumes the trail entries it draws
RenderConsuming ==
    /\ pc = "loop"
    /\ title' = "orbits (fps)"
    /\ satellites' = [i \in 1..Len(satellites) |->
                         [satellites[i] EXCEPT !.trail = <<>>]]
    /\ UNCHANGED <<pc, num_planets, trail_length, dt, planets, tick,
                   nextId, draw, spawned, prev, ended, deaths>>

\* a variant of Render that drops the planet it has drawn first
RenderDroppingPlanet ==
    /\ pc = "loop"
    /\ title' = "orbits (fps)"
    /\ planets' = SubSeq(planets, 2, Len(planets))
    /\ UNCHANGED <<pc, num_planets, trail_length, dt, satellites, tick,
                   nextId, draw, spawned, prev, ended, deaths>>

\* reads planets and satellites to draw them; writes the fps counter's
\* reading into the window title
Render ==
    /\ pc = "loop"
    /\ title' = "orbits (fps)"
    /\ UNCHANGED <<pc, num_planets, trail_length, dt, planets, satellites, tick,
                   nextId, draw, spawned, prev, ended, deaths>>

Next == Main \/ Update \/ Render

Spec == Init /\ [][Next]_vars

----------------------------------------------------------------------------
(* App::update on a given App.  update is a function of the App it is      *)
(* called on; here the collection it finds holds one satellite that is     *)
(* given, not spawned by an earlier call, so that positions at the edges   *)
(* of the viewport, a satellite at rest and a dead satellite in the clear  *)
(* are among the arguments.                                                *)

\* x, y, v_x, v_y in hundredths, and dead: a satellite at rest 50 px below
\* the centre, one at rest beyond the top left corner, eight at rest on
\* and just beyond the four edge tests, a dead one still moving west
GivenInputs ==
    {<<40000, 45000, 0, 0, FALSE>>,
     <<0 - 1000, 0 - 1000, 0, 0, FALSE>>,
     <<0 - 500, 40000, 0, 0, FALSE>>, <<0 - 501, 40000, 0, 0, FALSE>>,
     <<40000, 0 - 500, 0, 0, FALSE>>, <<40000, 0 - 501, 0, 0, FALSE>>,
     <<80500, 40000, 0, 0, FALSE>>, <<80501, 40000, 0, 0, FALSE>>,
     <<40000, 80500, 0, 0, FALSE>>, <<40000, 80501, 0, 0, FALSE>>,
     <<10000, 10000, 0 - 20000, 0, TRUE>>}

\* the trail a given satellite comes with: none if it is alive, as after
\* its creation; if it is dead, its last len positions before its death,
\* two at most
GivenTrail(in, len) ==
    IF in[5]
    THEN SubSeq(<<<<in[1] + 400, in[2]>>, <<in[1] + 200, in[2]>>>>,
                3 - Min(len, 2), 2)
    ELSE <<>>

GivenSatellite(in, len) ==
    [id |-> 1, born |-> 0, path |-> GivenTrail(in, len),
     radius |-> sat_radius,
     dead |-> in[5],
     x |-> in[1],
     y |-> in[2],
     v_x |-> in[3],
     v_y |-> in[4],
     trail |-> GivenTrail(in, len)]

\* the event loop about to call update on an App that holds one given
\* satellite, with the longest trails of the model; a dead satellite is in
\* a collection only with trail entries left
InitGiven ==
    /\ pc = "loop"
    /\ num_planets \in 1..MaxPlanets
    /\ trail_length = MaxTrail
    /\ dt \in DtSet
    /\ planets = CreatePlanets(num_planets)
    /\ \E in \in GivenInputs :
          /\ in[5] => trail_length >= 1
          /\ satellites = <<GivenSatellite(in, trail_length)>>
          /\ deaths = IF in[5]
                      THEN [id \in {1} |->
                              [tick |-> 0, len |-> Len(GivenTrail(in, trail_length))]]
                      ELSE <<>>
    /\ title = "orbits"
    /\ tick = 0
    /\ nextId = 1
    /\ draw = Scale
    /\ spawned = <<>>
    /\ prev = <<>>
    /\ ended = <<>>

NextGiven == Update

SpecGiven == InitGiven /\ [][NextGiven]_vars

----------------------------------------------------------------------------
(* Properties.  prev, ended, draw and spawned describe the latest update   *)
(* call; tick > 0 says that there has been one.                            *)

\* the satellite of collection sats that carries spawn number id
SatOf(sats, id) == CHOOSE s \in Sats(sats) : s.id = id

SameMotion(s, t) == s.x = t.x /\ s.y = t.y /\ s.v_x = t.v_x /\ s.v_y = t.v_y

\* C1 (as claimed): a satellite that is dead when update is called and is
\* still in the collection afterwards has the position and velocity it had
\* before the call.
C1_DeadFreeze ==
    \A s \in Sats(prev) :
        (s.dead /\ s.id \in Ids(satellites)) => SameMotion(s, SatOf(satellites, s.id))

\* C2: every satellite in the collection has at most trail_length trail
\* entries, whatever trail_length >= 0 is.
C2_TrailBound ==
    \A s \in Sats(satellites) : Len(s.trail) <= trail_length

\* a live satellite that has seen more updates than the trail holds, so an
\* entry has been evicted, with its trail at the cap
C2_Witness ==
    \E s \in Sats(satellites) :
        /\ ~s.dead
        /\ trail_length >= 1
        /\ tick - s.born > trail_length
        /\ Len(s.trail) = trail_length

\* C3: an update removes a satellite exactly when it is dead with an empty
\* trail at the end of that update; the others stay, unchanged and in
\* order, and none in the collection is dead with an empty trail.
C3_RemovalRule ==
    /\ \A e \in Sats(ended) :
          (e.id \notin Ids(satellites)) <=> (e.dead /\ e.trail = <<>>)
    /\ \A s \in Sats(satellites) : ~(s.dead /\ s.trail = <<>>)
    /\ \A s \in Sats(satellites) : s \in Sats(ended)
    /\ \A i, j \in 1..Len(satellites) :
          i < j => \E k, l \in 1..Len(ended) :
                      k < l /\ ended[k] = satellites[i] /\ ended[l] = satellites[j]

\* an update that removed one satellite and kept a dead one with its trail
C3_Witness ==
    /\ \E e \in Sats(ended) : e.id \notin Ids(satellites)
    /\ \E s \in Sats(satellites) : s.dead /\ s.trail # <<>>

\* C4: a satellite that died with a trail of L entries loses the oldest
\* entry and gains none on each later update, stays in the collection for
\* the first L - 1 of them and is removed by the L-th.
C4_EventualRemoval ==
    /\ \A s \in Sats(satellites) :
          s.dead => /\ s.id \in DOMAIN deaths
                    /\ tick < deaths[s.id].tick + deaths[s.id].len
                    /\ Len(s.trail) = deaths[s.id].len - (tick - deaths[s.id].tick)
    /\ \A s \in Sats(prev) :
          s.dead =>
             IF s.id \in Ids(satellites)
             THEN /\ SatOf(satellites, s.id).trail = Tail(s.trail)
                  /\ SatOf(satellites, s.id).dead
             ELSE /\ Len(s.trail) = 1
                  /\ tick = deaths[s.id].tick + deaths[s.id].len
    /\ \A id \in DOMAIN deaths :
          tick >= deaths[id].tick + deaths[id].len => id \notin Ids(satellites)

\* a satellite that died with two trail entries has just been removed, two
\* updates later
C4_Witness ==
    \E s \in Sats(prev) :
        /\ s.dead
        /\ s.id \notin Ids(satellites)
        /\ deaths[s.id].len >= 2
        /\ tick = deaths[s.id].tick + deaths[s.id].len

\* the body (centre +/- radius) lies wholly outside [0,width] x [0,height]
BodyOutside(s) ==
    \/ FLt(FAdd(s.x, s.radius), 0)
    \/ FLt(FAdd(s.y, s.radius), 0)
    \/ FGt(FSub(s.x, s.radius), width)
    \/ FGt(FSub(s.y, s.radius), height)

\* the centre of s is nearer to the centre of planet p than the two radii
Overlaps(s, p) == FLt(FSqrt(DistanceSq(s, p)), FAdd(s.radius, p.radius))

\* C5: a satellite whose whole body is outside the viewport when update is
\* called is dead after that call, whatever its velocity.
C5_BoundaryDeath ==
    \A s \in Sats(prev) :
        BodyOutside(s) =>
            /\ SatOf(ended, s.id).dead
            /\ s.id \in Ids(satellites) => SatOf(satellites, s.id).dead

\* a satellite that was outside the viewport when the latest update was
\* called, and is in the collection, dead, after it
C5_Witness ==
    \E s \in Sats(prev) :
        /\ BodyOutside(s)
        /\ s.id \in Ids(satellites)
        /\ SatOf(satellites, s.id).dead

\* C6: a satellite that overlaps a planet when update is called is dead
\* after that call, whatever its velocity and wherever it is.
C6_CollisionDeath ==
    \A s \in Sats(prev) :
        (\E k \in 1..Len(planets) : Overlaps(s, planets[k])) =>
            /\ SatOf(ended, s.id).dead
            /\ s.id \in Ids(satellites) => SatOf(satellites, s.id).dead

\* a satellite that overlapped a planet when the latest update was called,
\* and is in the collection, dead, after it
C6_Witness ==
    \E s \in Sats(prev) :
        /\ \E k \in 1..Len(planets) : Overlaps(s, planets[k])
        /\ s.id \in Ids(satellites)
        /\ SatOf(satellites, s.id).dead

\* C7 (as claimed): a satellite that is alive when update is called is in
\* the collection after the call, with min(previous length + 1,
\* trail_length) trail entries, also when it dies in that call and also for
\* trail_length = 0.
C7_LiveSurvives ==
    \A s \in Sats(prev) :
        ~s.dead =>
            /\ s.id \in Ids(satellites)
            /\ Len(SatOf(satellites, s.id).trail) = Min(Len(s.trail) + 1, trail_length)

\* C7 (amended): a satellite that is alive when update is called ends the
\* call with min(previous length + 1, trail_length) trail entries; it is in
\* the collection after the call unless trail_length = 0 and it died in
\* that call.
C7_LiveSurvivesAmended ==
    \A s \in Sats(prev) :
        ~s.dead =>
            /\ Len(SatOf(ended, s.id).trail) = Min(Len(s.trail) + 1, trail_length)
            /\ (s.id \in Ids(satellites))
                  <=> ~(trail_length = 0 /\ SatOf(ended, s.id).dead)
            /\ s.id \in Ids(satellites) => SatOf(satellites, s.id) = SatOf(ended, s.id)

\* a satellite that was alive when the latest update was called, died in
\* it and is in the collection with one more trail entry
C7_Witness ==
    \E s \in Sats(prev) :
        /\ ~s.dead
        /\ s.id \in Ids(satellites)
        /\ SatOf(satellites, s.id).dead
        /\ Len(SatOf(satellites, s.id).trail) = Len(s.trail) + 1

\* C8: every update makes one spawn decision from its draw alone, for every
\* dt: a draw below add_chance pushes exactly one satellite, not dead, with
\* an empty trail, the configured radius and a position in
\* [0,width) x [0,height); any other draw pushes none.  The collection
\* grows by at most one.
C8_SpawnPolicy ==
    tick > 0 =>
        /\ FLt(draw, add_chance) =>
              /\ Len(spawned) = 1
              /\ spawned[1].dead = FALSE
              /\ spawned[1].trail = <<>>
              /\ spawned[1].radius = sat_radius
              /\ 0 <= spawned[1].x /\ spawned[1].x < width
              /\ 0 <= spawned[1].y /\ spawned[1].y < height
              /\ spawned[1].id \notin Ids(prev)
        /\ ~FLt(draw, add_chance) => spawned = <<>>
        /\ Len(ended) = Len(prev) + Len(spawned)
        /\ Ids(ended) = Ids(prev) \cup Ids(spawned)
        /\ Len(satellites) <= Len(prev) + 1

\* an update that spawned into a collection that already held a satellite
C8_Witness ==
    /\ tick > 0
    /\ Len(spawned) = 1
    /\ prev # <<>>
    /\ Len(satellites) = Len(prev) + 1

\* C9: with num_planets = 0 main aborts before App is built, so neither
\* update nor render ever runs without planets; with num_planets = n >= 1
\* the event loop runs over exactly n planets.
C9_ConfigValidation ==
    /\ num_planets = 0 =>
          (pc # "loop" /\ tick = 0 /\ title = "orbits" /\ planets = <<>>)
    /\ pc = "loop" => (num_planets >= 1 /\ Len(planets) = num_planets)
    /\ (tick > 0 \/ title # "orbits") => planets # <<>>
    /\ pc = "panic" => num_planets = 0

\* main has aborted on num_planets = 0
C9_Witness == pc = "panic" /\ num_planets = 0 /\ planets = <<>>

\* C10: a step of the event loop that is not an update, that is a render,
\* leaves the planets and the satellite collection as they are.
C10_RenderPure ==
    [][(pc = "loop" /\ tick' = tick) => (planets' = planets /\ satellites' = satellites)]_vars

\* a frame has been rendered while satellites with trails were in flight
C10_Witness ==
    /\ title = "orbits (fps)"
    /\ \E s \in Sats(satellites) : s.trail # <<>>

\* C11: once the event loop runs, no update and no render changes the
\* planets: their number and each one's position, mass and radius stay as
\* main created them.
C11_PlanetsImmutable ==
    [][pc = "loop" => planets' = planets]_vars

\* several updates, one of which spawned, and a render have run over more
\* than one planet
C11_Witness ==
    /\ tick >= 2
    /\ nextId >= 1
    /\ title = "orbits (fps)"
    /\ Len(planets) >= 2
    /\ planets = CreatePlanets(num_planets)

\* the satellites as the first loop of the latest update found them
Entered == Sats(prev) \cup Sats(spawned)

\* C12: an update first changes a satellite's velocity by the pull of every
\* planet, each computed at the position the satellite had when update was
\* called, and then moves it by dt times that new velocity.  A satellite at
\* rest at (400,450), below a single planet at (400,400), so ends the
\* update with v_x = 0 and v_y < 0, its y changed by exactly v_y * dt.
C12_GravityThenMove ==
    \A s \in Entered :
        LET e == SatOf(ended, s.id)
            u == UpdateVelocities(s, planets, dt)
        IN  /\ e.v_x = u.v_x
            /\ e.v_y = u.v_y
            /\ e.x = FAdd(s.x, FMul(e.v_x, dt))
            /\ e.y = FAdd(s.y, FMul(e.v_y, dt))
            /\ (/\ num_planets = 1
                /\ ~s.dead
                /\ s.x = F(400) /\ s.y = F(450)
                /\ s.v_x = 0 /\ s.v_y = 0)
               => /\ e.v_x = 0
                  /\ e.v_y < 0
                  /\ e.y < s.y
                  /\ e.y - s.y = FMul(e.v_y, dt)

\* the first update has run on the satellite at rest below the single
\* planet, and has pulled it upward and moved it
C12_Witness ==
    /\ tick = 1
    /\ Len(prev) = 1 /\ Len(ended) = 1
    /\ num_planets = 1
    /\ planets[1].x = F(400) /\ planets[1].y = F(400)
    /\ planets[1].mass = F(1000)
    /\ gravity_constant = F(4000)
    /\ dt = 1
    /\ \E s \in Sats(prev) :
          /\ ~s.dead
          /\ s.x = F(400) /\ s.y = F(450)
          /\ s.v_x = 0 /\ s.v_y = 0
          /\ SatOf(ended, s.id).v_y < 0
          /\ SatOf(ended, s.id).y < s.y

\* C13 (as claimed): the death test of an update runs before its trail
\* eviction, so a satellite that enters an update alive and ends it dead
\* has had its oldest trail entry evicted in that update: with at most one
\* entry pushed and one evicted, its trail has not grown.
C13_DeathBeforeEviction ==
    \A s \in Entered :
        (~s.dead /\ SatOf(ended, s.id).dead) =>
            Len(SatOf(ended, s.id).trail) <= Len(s.trail)

\* C14: a satellite that is dead when update is called is dead at the end
\* of that call, wherever the call has left it, and a satellite that has
\* once died is dead for as long as it is in the collection.
C14_DeathIrreversible ==
    /\ \A s \in Sats(prev) :
          s.dead =>
             /\ SatOf(ended, s.id).dead
             /\ s.id \in Ids(satellites) => SatOf(satellites, s.id).dead
    /\ \A s \in Sats(satellites) : s.id \in DOMAIN deaths => s.dead

\* update's tests have run on a dead satellite that is inside the viewport
\* and clear of every planet; it is still in the collection, dead
C14_Witness ==
    \E s \in Sats(prev) :
        /\ s.dead
        /\ s.id \in Ids(satellites)
        /\ LET e == SatOf(satellites, s.id)
           IN  /\ e.dead
               /\ ~BodyOutside(e)
               /\ 0 <= e.x /\ e.x <= width
               /\ 0 <= e.y /\ e.y <= height
               /\ \A k \in 1..Len(planets) : ~Overlaps(e, planets[k])

\* C15: update divides by the squared distance unguarded.  A satellite that
\* enters the first loop of an update at the very position of a planet
\* (squared distance 0) leaves that update with the result of the division
\* by zero in its velocity: an infinity or a NaN.  A spawn at a planet's
\* centre brings this about, in the update that spawns.
C15_ZeroDistanceUnguarded ==
    \A s \in Entered :
        (\E k \in 1..Len(planets) :
            /\ IsFinite(s.x) /\ IsFinite(s.y)
            /\ s.x = planets[k].x /\ s.y = planets[k].y)
        => LET e == SatOf(ended, s.id)
           IN  /\ ~IsFinite(e.v_x) \/ ~IsFinite(e.v_y)
               /\ ~IsFinite(e.x) \/ ~IsFinite(e.y)

\* the latest update spawned a satellite at the centre of a planet and
\* integrated it: the division by a squared distance of 0 has happened
C15_Witness ==
    /\ tick >= 1
    /\ Len(spawned) = 1
    /\ \E k \in 1..Len(planets) :
          /\ spawned[1].x = planets[k].x
          /\ spawned[1].y = planets[k].y
          /\ DistanceSq(spawned[1], planets[k]) = 0
    /\ ~IsFinite(SatOf(ended, spawned[1].id).v_x)

\* every satellite value of the state
Known == Sats(prev) \cup Sats(spawned) \cup Sats(ended) \cup Sats(satellites)

\* for finite coordinates: the body is wholly beyond one of the four edges
Beyond(s) ==
    \/ s.x + s.radius < 0
    \/ s.y + s.radius < 0
    \/ s.x - s.radius > width
    \/ s.y - s.radius > height

\* for finite coordinates: the disc of s has a point in the rectangle
\* [0,width] x [0,height], the nearest point of the rectangle to its centre
\* being within the radius
Touches(s) ==
    LET dx == s.x - Max(0, Min(s.x, width))
        dy == s.y - Max(0, Min(s.y, height))
    IN  /\ Abs(dx) <= s.radius
        /\ Abs(dy) <= s.radius
        /\ dx * dx + dy * dy <= s.radius * s.radius

\* C16: outside(x, y, radius, width, height) is true exactly when
\* x + radius < 0 or y + radius < 0 or x - radius > width or
\* y - radius > height, the comparisons being strict on both axes; a body
\* that touches or overlaps the viewport rectangle is not outside.  So a
\* satellite that enters an update alive and ends it clear of the planets
\* is dead at its end exactly when it is beyond an edge then.
C16_OutsideTest ==
    /\ \A s \in Known :
          (IsFinite(s.x) /\ IsFinite(s.y)) =>
             /\ outside(s.x, s.y, s.radius, width, height) <=> Beyond(s)
             /\ Touches(s) => ~outside(s.x, s.y, s.radius, width, height)
    /\ \A s \in Entered :
          LET e == SatOf(ended, s.id)
          IN  (/\ ~s.dead
               /\ IsFinite(e.x) /\ IsFinite(e.y)
               /\ \A k \in 1..Len(planets) : ~Overlaps(e, planets[k]))
              => (e.dead <=> Beyond(e))

\* update has tested a satellite whose body touches the left edge from
\* outside (x + radius = 0) and has left it alive
C16_Witness ==
    \E s \in Sats(prev) :
        /\ ~s.dead
        /\ s.id \in Ids(satellites)
        /\ LET e == SatOf(satellites, s.id)
           IN  /\ e.x + e.radius = 0
               /\ 0 <= e.y /\ e.y <= height
               /\ Touches(e)
               /\ ~e.dead

\* the last n entries of seq
LastN(seq, n) == SubSeq(seq, Len(seq) - n + 1, Len(seq))

\* C17: at the end of an update that a satellite entered alive, the k-th
\* since its spawn, its trail holds the positions it had at the end of its
\* last min(k, trail_length) integrations, oldest first; for
\* trail_length >= 1 the newest entry is its current position.  This
\* includes the update in which it dies.
C17_TrailFifo ==
    \A s \in Sats(ended) \cup Sats(satellites) :
        (~s.dead \/ deaths[s.id].tick = tick) =>
            LET k == tick - s.born
            IN  /\ k >= 1
                /\ Len(s.path) = k
                /\ s.path[k] = <<s.x, s.y>>
                /\ s.trail = LastN(s.path, Min(k, trail_length))
                /\ trail_length >= 1 => s.trail[Len(s.trail)] = <<s.x, s.y>>

\* a satellite has just ended its third update, alive until then, with a
\* trail of two entries: its first position has been evicted and the two
\* later ones, which differ, are kept in order
C17_Witness ==
    \E s \in Sats(satellites) :
        /\ ~s.dead \/ deaths[s.id].tick = tick
        /\ tick - s.born = 3
        /\ trail_length = 2
        /\ s.trail = <<s.path[2], s.path[3]>>
        /\ s.path[1] # s.path[2] /\ s.path[2] # s.path[3]

\* C18: the satellite an update spawns goes through the rest of that same
\* update: the planets change its velocity, it is moved by the new
\* velocity, the position reached is appended to its trail, it is tested
\* for death there, and retain applies to it.  It ends its spawn update
\* with min(1, trail_length) trail entries, dead or alive.
C18_SpawnThenIntegrate ==
    (tick > 0 /\ Len(spawned) = 1) =>
        LET s == spawned[1]
            e == SatOf(ended, s.id)
            u == UpdateVelocities(s, planets, dt)
        IN  /\ s.trail = <<>> /\ ~s.dead
            /\ e.v_x = u.v_x /\ e.v_y = u.v_y
            /\ e.x = FAdd(s.x, FMul(e.v_x, dt))
            /\ e.y = FAdd(s.y, FMul(e.v_y, dt))
            /\ Len(e.trail) = Min(1, trail_length)
            /\ trail_length >= 1 => e.trail = <<<<e.x, e.y>>>>
            /\ e.dead <=> (BodyOutside(e) \/ \E k \in 1..Len(planets) : Overlaps(e, planets[k]))
            /\ (s.id \in Ids(satellites)) <=> ~(e.dead /\ e.trail = <<>>)

\* the latest update spawned a satellite inside a planet's collision
\* radius: it is dead at the end of that update, with one trail entry
C18_Witness ==
    /\ tick > 0
    /\ Len(spawned) = 1
    /\ \E k \in 1..Len(planets) : Overlaps(spawned[1], planets[k])
    /\ spawned[1].id \in Ids(satellites)
    /\ SatOf(satellites, spawned[1].id).dead
    /\ Len(SatOf(satellites, spawned[1].id).trail) = 1

\* the IEEE comparison a >= b: false as soon as one side is NaN
AtLeast(a, b) == ~IsNaN(a) /\ ~IsNaN(b) /\ a >= b

\* C19: in every state between two updates, a satellite of the collection
\* that is not dead is not outside the viewport, by the outside test, and
\* its centre is at least the sum of the two radii away from the centre of
\* every planet.
C19_LiveInBoundsAndClear ==
    \A s \in Sats(satellites) :
        ~s.dead =>
            /\ ~outside(s.x, s.y, s.radius, width, height)
            /\ ~BodyOutside(s)
            /\ \A k \in 1..Len(planets) :
                  AtLeast(FSqrt(DistanceSq(s, planets[k])),
                          FAdd(s.radius, planets[k].radius))

\* after its second update a satellite is alive with its centre left of
\* the viewport and its body still reaching in
C19_Witness ==
    /\ tick >= 2
    /\ \E s \in Sats(satellites) :
          /\ ~s.dead
          /\ tick - s.born >= 2
          /\ s.x < 0
          /\ s.x + s.radius >= 0

====
